---- MODULE Spec2Model ----
(***************************************************************************)
(* pstack-gdb: a wrapper that drives an interactive gdb subprocess over    *)
(* two pipes to print the stack of each pid given on the command line.     *)
(*                                                                         *)
(* Text is modelled byte by byte: a C string is a sequence of one-byte     *)
(* strings, so <<"a","b">> is "ab".  The byte NUL is written "NUL".        *)
(***************************************************************************)
EXTENDS Integers, Sequences, FiniteSets, TLC

(***************************************************************************)
(* Program constants                                                       *)
(***************************************************************************)
REAP_RETRY_COUNT == 5
BUF_SIZE == 1024

(***************************************************************************)
(* Bounds of the model                                                     *)
(***************************************************************************)
\* longest pid list given on the command line
MaxTargets == 2
\* exit-status polls made before the model stops following the timer
MaxPolls == 7
\* pieces a raw response is assembled from in the framing specification
MaxPieces == 2
\* most bytes a single read returns in the framing specification
MaxChunk == 3
\* the size of the short reads of a turn in the session specification
SmallRead == 8

STATE_START == "STATE_START"
STATE_ATTACH == "STATE_ATTACH"
STATE_CHECK_THREADS == "STATE_CHECK_THREADS"
STATE_BACKTRACE == "STATE_BACKTRACE"
STATE_PRINT_BACKTRACE == "STATE_PRINT_BACKTRACE"
STATE_DETACH == "STATE_DETACH"
STATE_DONE == "STATE_DONE"

State ==
  {STATE_START, STATE_ATTACH, STATE_CHECK_THREADS, STATE_BACKTRACE,
   STATE_PRINT_BACKTRACE, STATE_DETACH, STATE_DONE}

G_IO_STATUS_NORMAL == "G_IO_STATUS_NORMAL"
G_IO_STATUS_AGAIN == "G_IO_STATUS_AGAIN"
G_IO_STATUS_EOF == "G_IO_STATUS_EOF"
G_IO_STATUS_ERROR == "G_IO_STATUS_ERROR"

G_IO_IN == "G_IO_IN"
G_IO_HUP == "G_IO_HUP"
G_IO_ERR == "G_IO_ERR"

SIGTERM == "SIGTERM"
SIGKILL == "SIGKILL"

(***************************************************************************)
(* String literals of the source                                           *)
(***************************************************************************)
NUL == "NUL"
LF == "\n"
\* "(gdb) "
PROMPT == <<"(","g","d","b",")"," ">>
\* "ptrace:"
PTRACE == <<"p","t","r","a","c","e",":">>
\* "Thread"
THREAD == <<"T","h","r","e","a","d">>
Digits == {"0","1","2","3","4","5","6","7","8","9"}

(***************************************************************************)
(* libc / GLib string primitives, on byte sequences                        *)
(***************************************************************************)
\* s[i] of a NUL terminated string whose bytes before the NUL are s
CharAt(s, i) == IF i <= Len(s) THEN s[i] ELSE NUL

\* strncmp (s1, s2, n) == 0: bytes are compared up to n of them, or up to
\* the terminating NUL of both
RECURSIVE strncmp_from(_, _, _, _)
strncmp_from(s1, s2, n, i) ==
  IF i > n THEN TRUE
  ELSE IF CharAt(s1, i) # CharAt(s2, i) THEN FALSE
  ELSE IF CharAt(s1, i) = NUL THEN TRUE
  ELSE strncmp_from(s1, s2, n, i + 1)

strncmp_eq(s1, s2, n) == strncmp_from(s1, s2, n, 1)

\* strstr (haystack, needle) != NULL
strstr(haystack, needle) ==
  \E i \in 1..(Len(haystack) - Len(needle) + 1) :
    SubSeq(haystack, i, i + Len(needle) - 1) = needle

g_ascii_isdigit(c) == c \in Digits

\* g_str_has_suffix (str, suffix)
g_str_has_suffix(str, suffix) ==
  /\ Len(str) >= Len(suffix)
  /\ SubSeq(str, Len(str) - Len(suffix) + 1, Len(str)) = suffix

\* the bytes of a char array that C string functions see: those before
\* the first NUL
c_str(bytes) ==
  LET nul == SelectSeq([i \in 1..Len(bytes) |-> i], LAMBDA i : bytes[i] = NUL)
  IN IF nul = <<>> THEN bytes ELSE SubSeq(bytes, 1, nul[1] - 1)

\* g_string_append (buf, buffer): buffer is appended as a C string
g_string_append(buf, buffer) == buf \o c_str(buffer)

\* g_strsplit (string, "\n", -1): the tokens between line feeds; the empty
\* string splits into no token at all
g_strsplit(string) ==
  LET at == SelectSeq([i \in 1..Len(string) |-> i],
                      LAMBDA i : string[i] = LF)
      n == Len(at)
      from(k) == IF k = 1 THEN 1 ELSE at[k - 1] + 1
      to(k) == IF k = n + 1 THEN Len(string) ELSE at[k] - 1
  IN IF string = <<>> THEN <<>>
     ELSE [k \in 1..(n + 1) |-> SubSeq(string, from(k), to(k))]

(***************************************************************************)
(* Commands written to gdb and messages printed, as records                *)
(***************************************************************************)
Cmd(op, pid, str) == [op |-> op, pid |-> pid, str |-> str]
Msg(msg, pid, text) == [msg |-> msg, pid |-> pid, text |-> text]

\* "define pstack_thread\nthread $arg0\nbacktrace\nend\n"
CMD_DEFINE == Cmd("define pstack_thread", 0, <<>>)
\* g_strdup_printf ("attach %d", pid)
CMD_ATTACH(pid) == Cmd("attach", pid, <<>>)
CMD_INFO_THREADS == Cmd("info threads", 0, <<>>)
\* g_strconcat ("pstack_thread ", str, NULL)
CMD_PSTACK_THREAD(str) == Cmd("pstack_thread", 0, str)
CMD_BACKTRACE == Cmd("backtrace", 0, <<>>)
CMD_DETACH == Cmd("detach", 0, <<>>)
CMD_FLUSH == Cmd("p 0", 0, <<>>)
CMD_QUIT == Cmd("quit", 0, <<>>)

MSG_DIED == Msg("gdb unexpectedly died!", 0, <<>>)
MSG_READ_ERROR == Msg("gdb read error", 0, <<>>)
\* g_printerr ("Skipping pid %d: %s\n", pid, buf)
MSG_SKIPPING(pid, buf) == Msg("Skipping pid", pid, buf)
\* g_print ("Backtrace for pid %d\n", pid)
MSG_BACKTRACE_FOR(pid) == Msg("Backtrace for pid", pid, <<>>)
\* g_print ("%s\n", *iter)
MSG_LINE(line) == Msg("line", 0, line)

(***************************************************************************)
(* read_lines: one turn of gdb output, framed by the prompt                *)
(***************************************************************************)
\* the value a read gives back: its status and the bytes it stored
ReadResult(status, data) == [status |-> status, data |-> data]

\* read_lines before its first read: an empty GString, lines == NULL
read_start ==
  [buf |-> <<>>, done |-> FALSE, null |-> TRUE, lines |-> <<>>, err |-> <<>>]

\* the vector g_strsplit built, with its last element freed and cut off
drop_last(lines) == SubSeq(lines, 1, Len(lines) - 1)

\* one pass of the while loop of read_lines
read_iter(rl, rd) ==
  LET buf == g_string_append(rl.buf, rd.data)
      stop == rd.status # G_IO_STATUS_NORMAL
      err == IF rd.status \in {G_IO_STATUS_NORMAL, G_IO_STATUS_AGAIN,
                                G_IO_STATUS_EOF}
             THEN rl.err ELSE Append(rl.err, MSG_READ_ERROR)
  IN IF g_str_has_suffix(buf, PROMPT)
     THEN [buf |-> buf, done |-> TRUE, null |-> FALSE,
           lines |-> drop_last(g_strsplit(buf)), err |-> err]
     ELSE [buf |-> buf, done |-> stop, null |-> rl.null,
           lines |-> rl.lines, err |-> err]

\* read_lines over the results its successive reads give
RECURSIVE read_loop(_, _)
read_loop(rl, reads) ==
  IF rl.done \/ reads = <<>> THEN rl
  ELSE read_loop(read_iter(rl, Head(reads)), Tail(reads))

read_lines(reads) == read_loop(read_start, reads)

(***************************************************************************)
(* attach_ok                                                               *)
(***************************************************************************)
\* [ok, errbuf]: the first line that starts with "ptrace:" fails the attach
RECURSIVE attach_scan(_, _)
attach_scan(lines, iter) ==
  IF iter > Len(lines) THEN [ok |-> TRUE, errbuf |-> <<>>]
  ELSE IF strncmp_eq(lines[iter], PTRACE, Len(PTRACE))
       THEN [ok |-> FALSE, errbuf |-> lines[iter]]
       ELSE attach_scan(lines, iter + 1)

\* a faulty attach_ok: "ptrace:" anywhere in a line fails the attach
RECURSIVE attach_scan_contains(_, _)
attach_scan_contains(lines, iter) ==
  IF iter > Len(lines) THEN [ok |-> TRUE, errbuf |-> <<>>]
  ELSE IF strstr(lines[iter], PTRACE)
       THEN [ok |-> FALSE, errbuf |-> lines[iter]]
       ELSE attach_scan_contains(lines, iter + 1)

attach_ok_contains(lines) == attach_scan_contains(lines, 1)

attach_ok(lines) == attach_scan(lines, 1)

(***************************************************************************)
(* get_thread_ids                                                          *)
(***************************************************************************)
\* a faulty inner loop: the line is not cut after the digits
RECURSIVE digit_scan_uncut(_, _, _)
digit_scan_uncut(line, s, found) ==
  IF s > Len(line) THEN [found |-> found, str |-> line]
  ELSE IF g_ascii_isdigit(line[s]) THEN digit_scan_uncut(line, s + 1, TRUE)
  ELSE IF found THEN [found |-> TRUE, str |-> line]
  ELSE digit_scan_uncut(line, s + 1, FALSE)

\* the inner loop: [found, str]; str is the line cut at the first byte that
\* follows a digit and is no digit
RECURSIVE digit_scan(_, _, _)
digit_scan(line, s, found) ==
  IF s > Len(line) THEN [found |-> found, str |-> line]
  ELSE IF g_ascii_isdigit(line[s]) THEN digit_scan(line, s + 1, TRUE)
  ELSE IF found THEN [found |-> TRUE, str |-> SubSeq(line, 1, s - 1)]
  ELSE digit_scan(line, s + 1, FALSE)

\* g_slist_prepend (list, data)
g_slist_prepend(list, data) == <<data>> \o list

RECURSIVE thread_scan(_, _, _)
thread_scan(lines, iter, thr) ==
  IF iter > Len(lines) THEN thr
  ELSE IF ~strstr(lines[iter], THREAD) THEN thread_scan(lines, iter + 1, thr)
  ELSE LET d == digit_scan(lines[iter], 1, FALSE)
       IN thread_scan(lines, iter + 1,
                      IF d.found THEN g_slist_prepend(thr, d.str) ELSE thr)

get_thread_ids(lines) == thread_scan(lines, 1, <<>>)

(***************************************************************************)
(* The conversation with gdb: process_gdb_output                           *)
(*                                                                         *)
(* app is the App the callback works on: [state, pids, threads], with wr   *)
(* the commands the callback has written to app->in and pr the messages it *)
(* has printed.                                                            *)
(***************************************************************************)
\* send_command: command and a line feed, written to app->in
send_command(command, app) == [app EXCEPT !.wr = Append(@, command)]

g_print(msg, app) == [app EXCEPT !.pr = Append(@, msg)]

\* a faulty g_slist_next: the list is not advanced
g_slist_next_same(list) == list

\* list->next of a list that has a first element
g_slist_next(list) == Tail(list)

\* a faulty send_thread_backtrace: every queued identifier is sent at once
RECURSIVE send_thread_backtrace_all(_)
send_thread_backtrace_all(app) ==
  IF app.threads = <<>> THEN app
  ELSE send_thread_backtrace_all(
         [app EXCEPT !.threads = Tail(app.threads),
                     !.wr = Append(@, CMD_PSTACK_THREAD(Head(app.threads)))])

\* send_thread_backtrace: the first queued identifier leaves the queue and
\* is sent as the argument of pstack_thread
send_thread_backtrace(app) ==
  LET str == Head(app.threads)
  IN send_command(CMD_PSTACK_THREAD(str),
                  [app EXCEPT !.threads = Tail(app.threads)])

\* print_lines
RECURSIVE print_lines(_, _)
print_lines(lines, app) ==
  IF lines = <<>> THEN app
  ELSE print_lines(Tail(lines), g_print(MSG_LINE(Head(lines)), app))

case_START(app) ==
  [send_command(CMD_DEFINE, app) EXCEPT !.state = STATE_ATTACH]

case_ATTACH(app, pid) ==
  [send_command(CMD_ATTACH(pid), app) EXCEPT !.state = STATE_CHECK_THREADS]

\* a faulty CHECK_THREADS: the failure branch leaves the target to DETACH
case_CHECK_THREADS_detach(app, lines, pid) ==
  LET a == attach_ok(lines)
  IN IF a.ok
     THEN [send_command(CMD_INFO_THREADS, app) EXCEPT !.state = STATE_BACKTRACE]
     ELSE [send_command(CMD_FLUSH, g_print(MSG_SKIPPING(pid, a.errbuf), app))
             EXCEPT !.state = STATE_DETACH]

case_CHECK_THREADS(app, lines, pid) ==
  LET a == attach_ok(lines)
  IN IF a.ok
     THEN [send_command(CMD_INFO_THREADS, app) EXCEPT !.state = STATE_BACKTRACE]
     ELSE [send_command(CMD_FLUSH, g_print(MSG_SKIPPING(pid, a.errbuf), app))
             EXCEPT !.pids = g_slist_next(app.pids), !.state = STATE_ATTACH]

\* a faulty BACKTRACE: the states of its two inner branches are exchanged
case_BACKTRACE_swapped(app, lines, pid) ==
  LET hdr == g_print(MSG_BACKTRACE_FOR(pid), app)
  IN IF lines # <<>>
     THEN LET got == [hdr EXCEPT !.threads = get_thread_ids(lines)]
          IN IF got.threads # <<>>
             THEN [send_thread_backtrace(got) EXCEPT !.state = STATE_DETACH]
             ELSE [got EXCEPT !.state = STATE_PRINT_BACKTRACE]
     ELSE [send_command(CMD_BACKTRACE, hdr)
             EXCEPT !.state = STATE_PRINT_BACKTRACE]

case_BACKTRACE(app, lines, pid) ==
  LET hdr == g_print(MSG_BACKTRACE_FOR(pid), app)
  IN IF lines # <<>>
     THEN LET got == [hdr EXCEPT !.threads = get_thread_ids(lines)]
          IN IF got.threads # <<>>
             THEN [send_thread_backtrace(got)
                     EXCEPT !.state = STATE_PRINT_BACKTRACE]
             ELSE [got EXCEPT !.state = STATE_DETACH]
     ELSE [send_command(CMD_BACKTRACE, hdr)
             EXCEPT !.state = STATE_PRINT_BACKTRACE]

\* a faulty DETACH: the state is set to DONE when no target is left
case_DETACH_done(app) ==
  [send_command(CMD_DETACH, app)
     EXCEPT !.threads = <<>>, !.pids = g_slist_next(app.pids),
            !.state = IF g_slist_next(app.pids) = <<>>
                      THEN STATE_DONE ELSE STATE_ATTACH]

case_DETACH(app) ==
  [send_command(CMD_DETACH, app)
     EXCEPT !.threads = <<>>, !.pids = g_slist_next(app.pids),
            !.state = STATE_ATTACH]

case_PRINT_BACKTRACE(app, lines) ==
  LET shown == print_lines(lines, app)
  IN IF shown.threads # <<>>
     THEN [send_thread_backtrace(shown) EXCEPT !.state = STATE_PRINT_BACKTRACE]
     ELSE case_DETACH(shown)

case_DONE(app) == send_command(CMD_QUIT, app)

\* the switch on app->state
switch_state(app, lines, pid) ==
  CASE app.state = STATE_START -> case_START(app)
    [] app.state = STATE_ATTACH -> case_ATTACH(app, pid)
    [] app.state = STATE_CHECK_THREADS -> case_CHECK_THREADS(app, lines, pid)
    [] app.state = STATE_BACKTRACE -> case_BACKTRACE(app, lines, pid)
    [] app.state = STATE_PRINT_BACKTRACE -> case_PRINT_BACKTRACE(app, lines)
    [] app.state = STATE_DETACH -> case_DETACH(app)
    [] app.state = STATE_DONE -> case_DONE(app)

\* a faulty callback: an empty target queue does not set STATE_DONE
gdb_output_no_done(app, condition, reads) ==
  IF condition \in {G_IO_ERR, G_IO_HUP}
  THEN [app |-> app, ret |-> FALSE, framed |-> FALSE]
  ELSE LET pid == IF app.pids # <<>> THEN Head(app.pids) ELSE -1
           rl == read_lines(reads)
           rd == [app EXCEPT !.pr = @ \o rl.err]
       IN IF rl.null
          THEN [app |-> rd, ret |-> FALSE, framed |-> FALSE]
          ELSE [app |-> switch_state(rd, rl.lines, pid), ret |-> TRUE,
                framed |-> TRUE]

\* the whole callback: [app, ret, framed]; ret is what it returns to the
\* main loop (FALSE removes the watch), framed whether a turn was handled
gdb_output(app, condition, reads) ==
  IF condition \in {G_IO_ERR, G_IO_HUP}
  THEN [app |-> app, ret |-> FALSE, framed |-> FALSE]
  ELSE LET pid == IF app.pids # <<>> THEN Head(app.pids) ELSE -1
           top == IF app.pids # <<>> THEN app
                  ELSE [app EXCEPT !.state = STATE_DONE]
           rl == read_lines(reads)
           rd == [top EXCEPT !.pr = @ \o rl.err]
       IN IF rl.null
          THEN [app |-> rd, ret |-> FALSE, framed |-> FALSE]
          ELSE [app |-> switch_state(rd, rl.lines, pid), ret |-> TRUE,
                framed |-> TRUE]

(***************************************************************************)
(* The reap supervisor: reap_gdb and waitpid_timeout                       *)
(***************************************************************************)
\* a faulty waitpid_timeout: the signal is chosen by the counter as it was
\* before the decrement
waitpid_timeout_late(try, wpid) ==
  LET t == try - 1
  IN IF wpid = 0
     THEN [reap_try |-> t,
           kill |-> IF try = 0 THEN <<SIGTERM>>
                    ELSE IF try < 0 THEN <<SIGKILL>> ELSE <<>>,
           quit |-> FALSE, ret |-> TRUE]
     ELSE [reap_try |-> t, kill |-> <<>>, quit |-> TRUE, ret |-> FALSE]

\* a faulty waitpid_timeout: SIGKILL is sent only when the counter is -1
waitpid_timeout_kill_once(try, wpid) ==
  LET t == try - 1
  IN IF wpid = 0
     THEN [reap_try |-> t,
           kill |-> IF t = 0 THEN <<SIGTERM>>
                    ELSE IF t = -1 THEN <<SIGKILL>> ELSE <<>>,
           quit |-> FALSE, ret |-> TRUE]
     ELSE [reap_try |-> t, kill |-> <<>>, quit |-> TRUE, ret |-> FALSE]

\* a faulty waitpid_timeout: a poll that finds gdb exited keeps the timeout
\* and does not stop the main loop
waitpid_timeout_no_quit(try, wpid) ==
  LET t == try - 1
  IN IF wpid = 0
     THEN [reap_try |-> t,
           kill |-> IF t = 0 THEN <<SIGTERM>>
                    ELSE IF t < 0 THEN <<SIGKILL>> ELSE <<>>,
           quit |-> FALSE, ret |-> TRUE]
     ELSE [reap_try |-> t, kill |-> <<>>, quit |-> FALSE, ret |-> TRUE]

\* waitpid_timeout with reap_try as it stands and wpid what waitpid gave:
\* [reap_try, kill, quit, ret]; kill is the signals sent, quit whether
\* g_main_loop_quit was called, ret the value returned
waitpid_timeout(try, wpid) ==
  LET t == try - 1
  IN IF wpid = 0
     THEN [reap_try |-> t,
           kill |-> IF t = 0 THEN <<SIGTERM>>
                    ELSE IF t < 0 THEN <<SIGKILL>> ELSE <<>>,
           quit |-> FALSE, ret |-> TRUE]
     ELSE [reap_try |-> t, kill |-> <<>>, quit |-> TRUE, ret |-> FALSE]

\* reap_gdb in state st, with wpid what its own call of waitpid_timeout
\* gets: [pr, w, timer, ret]; timer is whether g_timeout_add is called, ret
\* the value returned (FALSE removes the watch)
reap_gdb(st, wpid) ==
  LET w == waitpid_timeout(REAP_RETRY_COUNT, wpid)
  IN [pr |-> IF st # STATE_DONE THEN <<MSG_DIED>> ELSE <<>>,
      w |-> w, timer |-> w.ret, ret |-> FALSE]

(***************************************************************************)
(* gdb, the other end of the pipes.  What it answers depends on the pid:   *)
(* the pids stand for the kinds of process a run meets.                    *)
(***************************************************************************)
Pids == {111, 222, 333, 444, 555, 777, 888}

L_ATTACHING == 
  <<"A","t","t","a","c","h","i","n","g"," ","t","o"," ","p","r","o","c","e","s","s">>  \* "Attaching to process"
L_NOT_PERMITTED == 
  <<"p","t","r","a","c","e",":"," ","O","p","e","r","a","t","i","o","n"," ","n","o","t"," ","p","e","r","m","i","t","t","e","d">>  \* "ptrace: Operation not permitted"
L_NO_PROCESS == 
  <<"p","t","r","a","c","e",":"," ","N","o"," ","s","u","c","h"," ","p","r","o","c","e","s","s">>  \* "ptrace: No such process"
L_WARNING == 
  <<"w","a","r","n","i","n","g",":"," ","p","t","r","a","c","e",":"," ","d","e","n","i","e","d">>  \* "warning: ptrace: denied"
L_SYMBOLS == 
  <<"L","o","a","d","e","d"," ","s","y","m","b","o","l","s">>  \* "Loaded symbols"
L_THREAD_2 == 
  <<"*"," ","2"," ","T","h","r","e","a","d"," ","7"," ","(","L","W","P"," ","9",")">>  \* "* 2 Thread 7 (LWP 9)"
L_THREAD_1 == 
  <<" "," ","1"," ","T","h","r","e","a","d"," ","6"," ","(","L","W","P"," ","8",")">>  \* "  1 Thread 6 (LWP 8)"
L_THREAD_MAIN == 
  <<"T","h","r","e","a","d"," ","m","a","i","n">>  \* "Thread main"
L_FREE == 
  <<"9"," ","f","r","e","e">>  \* "9 free"
L_VALUE == 
  <<"$","1"," ","="," ","0">>  \* "$1 = 0"
L_DETACHING == 
  <<"D","e","t","a","c","h","i","n","g">>  \* "Detaching"
L_BANNER == 
  <<"G","N","U"," ","g","d","b">>  \* "GNU gdb"
L_MAIN == 
  <<"m","a","i","n">>  \* "main"

\* the lines gdb answers "attach pid" with
AttachLines(pid) ==
  CASE pid = 111 -> <<L_ATTACHING, L_NOT_PERMITTED>>
    [] pid = 555 -> <<L_ATTACHING, L_NO_PROCESS, L_SYMBOLS>>
    [] pid = 777 -> <<L_NO_PROCESS, L_ATTACHING>>
    [] pid = 333 -> <<L_ATTACHING, L_WARNING>>
    [] OTHER -> <<L_ATTACHING, L_SYMBOLS>>

\* the lines gdb answers "info threads" with, attached to pid
ThreadLines(pid) ==
  CASE pid = 222 -> <<L_THREAD_2, L_THREAD_1>>
    [] pid = 444 -> <<L_THREAD_MAIN, L_FREE>>
    [] pid = 888 -> <<L_THREAD_1, L_FREE, L_THREAD_2, L_THREAD_MAIN, L_THREAD_2>>
    [] OTHER -> <<>>

\* the two frame lines gdb prints for the thread a command names
FrameLines(str) == << <<"#","0"," ">> \o str, <<"#","1"," ">> \o str >>

\* the lines of gdb's answer to command c while attached to pid
AnswerLines(c, pid) ==
  CASE c.op = "attach" -> AttachLines(c.pid)
    [] c.op = "info threads" -> ThreadLines(pid)
    [] c.op = "pstack_thread" -> FrameLines(c.str)
    [] c.op = "backtrace" -> FrameLines(L_MAIN)
    [] c.op = "detach" -> <<L_DETACHING>>
    [] c.op = "p 0" -> <<L_VALUE>>
    [] OTHER -> <<>>

\* the bytes of a turn: every line with its line feed, then the prompt
RECURSIVE TurnBytes(_)
TurnBytes(lines) ==
  IF lines = <<>> THEN PROMPT
  ELSE Head(lines) \o <<LF>> \o TurnBytes(Tail(lines))

\* the pids gdb cannot attach to
Unattachable == {111, 555, 777}

\* the process gdb is attached to after command c
TargetAfter(c, pid) ==
  CASE c.op = "attach" -> IF c.pid \in Unattachable THEN pid ELSE c.pid
    [] c.op = "detach" -> 0
    [] OTHER -> pid

\* bytes cut into reads of at most n bytes each
Chop(bytes, n) ==
  LET full == Len(bytes) \div n
      count == IF Len(bytes) % n = 0 THEN full ELSE full + 1
      last(k) == IF k * n <= Len(bytes) THEN k * n ELSE Len(bytes)
  IN [k \in 1..count |->
        ReadResult(G_IO_STATUS_NORMAL, SubSeq(bytes, (k - 1) * n + 1, last(k)))]

\* what the reads of one call of read_lines can give when bytes are in the
\* pipe: all of them, whole or in pieces, or some of them and then the end
\* of the stream or an error
GoodReads(bytes) ==
  {Chop(bytes, n) : n \in {Len(bytes), (Len(bytes) + 1) \div 2, SmallRead}}

BadReads(bytes) ==
  {Chop(SubSeq(bytes, 1, k), Len(bytes)) \o <<ReadResult(st, <<>>)>> :
     k \in {0, Len(bytes) - 1},
     st \in {G_IO_STATUS_EOF, G_IO_STATUS_ERROR}}

\* waitpid (app->gdb_pid, &status, WNOHANG): the child's pid (here 1) once
\* it has exited, 0 while it has not
waitpid(g) == IF g = "exited" THEN 1 ELSE 0

(***************************************************************************)
(* State                                                                   *)
(***************************************************************************)
VARIABLES
  state,        \* app->state
  pids,         \* app->pids
  threads,      \* app->threads
  reap_try,     \* app->reap_try
  loop,         \* the main loop is running
  in_watch,     \* reap_gdb is registered on app->in
  out_watch,    \* process_gdb_output is registered on app->out
  timer,        \* waitpid_timeout is registered as a timeout
  targets,      \* the pid list of main, as get_pid_list returned it
  gdb,          \* the child: "alive", "closed" (its ends of the pipes are
                \* closed, it has not exited), "exited", "reaped"
  gdb_target,   \* the pid gdb is attached to, 0 for none
  inq,          \* commands in gdb's input pipe that gdb has not read
  outq,         \* bytes in gdb's output pipe that have not been read
  written,      \* every command written to app->in so far
  printed,      \* every message printed so far
  turns,        \* turns read_lines has returned so far
  polllog,      \* what each call of waitpid has returned so far
  signals,      \* every kill so far: the signal and the poll that sent it
  rl,           \* read_lines in progress: buf, done, lines
  rl_stream,    \* the bytes its next reads will find
  rl_response,  \* the whole response it is reading
  bytes         \* its bytes: how many bytes its last read stored in buffer

vars ==
  <<state, pids, threads, reap_try, loop, in_watch, out_watch, timer, targets,
    gdb, gdb_target, inq, outq, written, printed, turns, polllog, signals,
    rl, rl_stream, rl_response, bytes>>

app_vars == <<state, pids, threads>>
reap_vars == <<reap_try, timer, polllog, signals>>
framer_vars == <<rl, rl_stream, rl_response, bytes>>

\* every list of 1..n pids
RECURSIVE PidLists(_)
PidLists(n) ==
  IF n = 0 THEN {<<>>}
  ELSE LET shorter == PidLists(n - 1)
       IN shorter \cup {Append(l, p) : l \in {x \in shorter : Len(x) = n - 1},
                                       p \in Pids}

\* main, up to g_main_loop_run: the App is zeroed, gdb is started, both
\* watches are added; gdb prints its banner and its first prompt
Init ==
  /\ targets \in (PidLists(MaxTargets) \ {<<>>})
  /\ pids = targets
  /\ state = STATE_START
  /\ threads = <<>>
  /\ reap_try = 0
  /\ loop = TRUE
  /\ in_watch = TRUE
  /\ out_watch = TRUE
  /\ timer = FALSE
  /\ gdb = "alive"
  /\ gdb_target = 0
  /\ inq = <<>>
  /\ outq = TurnBytes(<<L_BANNER>>)
  /\ written = <<>>
  /\ printed = <<>>
  /\ turns = 0
  /\ polllog = <<>>
  /\ signals = <<>>
  /\ rl = read_start
  /\ rl_stream = <<>>
  /\ rl_response = <<>>
  /\ bytes = 0

(***************************************************************************)
(* gdb's steps                                                             *)
(***************************************************************************)
\* gdb reads the next command and answers it with one turn; quit makes it
\* close its pipes instead
GdbAnswer ==
  /\ gdb = "alive"
  /\ inq # <<>>
  /\ LET c == Head(inq)
     IN /\ inq' = Tail(inq)
        /\ IF c.op = "quit"
           THEN /\ gdb' = "closed"
                /\ UNCHANGED <<outq, gdb_target>>
           ELSE /\ outq' = outq \o TurnBytes(AnswerLines(c, gdb_target))
                /\ gdb_target' = TargetAfter(c, gdb_target)
                /\ UNCHANGED gdb
  /\ UNCHANGED <<app_vars, reap_vars, framer_vars, loop, in_watch, out_watch,
                 targets, written, printed, turns>>

\* gdb dies on its own: its ends of the pipes close
GdbDie ==
  /\ gdb = "alive"
  /\ gdb' = "closed"
  /\ UNCHANGED <<app_vars, reap_vars, framer_vars, loop, in_watch, out_watch,
                 targets, gdb_target, inq, outq, written, printed, turns>>

\* gdb, its pipes closed, becomes a child that waitpid can collect
GdbExit ==
  /\ gdb = "closed"
  /\ gdb' = "exited"
  /\ UNCHANGED <<app_vars, reap_vars, framer_vars, loop, in_watch, out_watch,
                 targets, gdb_target, inq, outq, written, printed, turns>>

(***************************************************************************)
(* The callbacks the main loop dispatches                                  *)
(***************************************************************************)
\* process_gdb_output run on the reads its read_lines is given, rest being
\* what is left in the pipe afterwards
OutputReady(reads, rest) ==
  LET app == [state |-> state, pids |-> pids, threads |-> threads,
              wr |-> <<>>, pr |-> <<>>]
      condition == IF gdb # "alive" THEN G_IO_HUP ELSE G_IO_IN
      r == gdb_output(app, condition, reads)
      eof == \E i \in 1..Len(reads) : reads[i].status = G_IO_STATUS_EOF
  IN /\ state' = r.app.state
     /\ pids' = r.app.pids
     /\ threads' = r.app.threads
     /\ written' = written \o r.app.wr
     /\ inq' = inq \o r.app.wr
     /\ printed' = printed \o r.app.pr
     /\ out_watch' = r.ret
     /\ turns' = IF r.framed THEN turns + 1 ELSE turns
     /\ outq' = rest
     /\ gdb' = IF eof THEN "closed" ELSE gdb
     /\ UNCHANGED <<reap_vars, framer_vars, loop, in_watch, targets,
                    gdb_target>>

\* process_gdb_output, dispatched when app->out is readable or hung up; a
\* read that meets the end of the stream is gdb closing its pipes meanwhile
process_gdb_output ==
  /\ loop
  /\ out_watch
  /\ gdb # "alive" \/ outq # <<>>
  /\ \E reads \in (IF gdb # "alive" THEN {<<>>}
                   ELSE GoodReads(outq) \cup BadReads(outq)) :
       OutputReady(reads, IF gdb # "alive" THEN outq ELSE <<>>)

\* process_gdb_output on a channel that does not block, dispatched when
\* only the first k bytes of a turn have arrived: the read after them finds
\* nothing and returns G_IO_STATUS_AGAIN
process_gdb_output_pending ==
  /\ loop
  /\ out_watch
  /\ gdb = "alive"
  /\ outq # <<>>
  /\ \E k \in {(Len(outq) + 1) \div 2, Len(outq) - 1} :
       OutputReady(Chop(SubSeq(outq, 1, k), Len(outq))
                     \o <<ReadResult(G_IO_STATUS_AGAIN, <<>>)>>,
                   SubSeq(outq, k + 1, Len(outq)))

\* reap_gdb, dispatched once app->in is hung up
reap_gdb_cb ==
  /\ loop
  /\ in_watch
  /\ gdb # "alive"
  /\ LET wpid == waitpid(gdb)
         r == reap_gdb(state, wpid)
     IN /\ printed' = printed \o r.pr
        /\ reap_try' = r.w.reap_try
        /\ polllog' = Append(polllog, wpid)
        /\ signals' = signals \o
             [i \in 1..Len(r.w.kill) |->
                [sig |-> r.w.kill[i], poll |-> Len(polllog) + 1]]
        /\ loop' = IF r.w.quit THEN FALSE ELSE loop
        /\ timer' = r.timer
        /\ gdb' = IF wpid # 0 THEN "reaped" ELSE gdb
        /\ in_watch' = r.ret
  /\ UNCHANGED <<app_vars, framer_vars, out_watch, targets, gdb_target, inq,
                 outq, written, turns>>

\* waitpid_timeout, dispatched when the REAP_DELAY timeout expires
waitpid_timeout_cb ==
  /\ loop
  /\ timer
  /\ Len(polllog) < MaxPolls
  /\ LET wpid == waitpid(gdb)
         w == waitpid_timeout(reap_try, wpid)
     IN /\ reap_try' = w.reap_try
        /\ polllog' = Append(polllog, wpid)
        /\ signals' = signals \o
             [i \in 1..Len(w.kill) |->
                [sig |-> w.kill[i], poll |-> Len(polllog) + 1]]
        /\ loop' = IF w.quit THEN FALSE ELSE loop
        /\ timer' = w.ret
        /\ gdb' = IF wpid # 0 THEN "reaped" ELSE gdb
  /\ UNCHANGED <<app_vars, framer_vars, in_watch, out_watch, targets,
                 gdb_target, inq, outq, written, printed, turns>>

Next ==
  \/ GdbAnswer
  \/ GdbDie
  \/ GdbExit
  \/ process_gdb_output
  \/ reap_gdb_cb
  \/ waitpid_timeout_cb

Spec == Init /\ [][Next]_vars

\* the scheduling a run can count on: the main loop dispatches a callback
\* whose source is ready, gdb answers a command it was sent, and a gdb that
\* has closed its pipes exits; nothing makes a live gdb die
Fairness ==
  /\ WF_vars(process_gdb_output)
  /\ WF_vars(reap_gdb_cb)
  /\ WF_vars(waitpid_timeout_cb)
  /\ WF_vars(GdbAnswer)
  /\ WF_vars(GdbExit)

SpecLive == Init /\ [][Next]_vars /\ Fairness

\* the session on channels that do not block
NextPending ==
  \/ Next
  \/ process_gdb_output_pending

SpecPending == Init /\ [][NextPending]_vars

(***************************************************************************)
(* read_lines on its own: a response that ends with the prompt is read in  *)
(* reads of any sizes                                                      *)
(***************************************************************************)
Pieces == {<<"a">>, <<LF>>, PROMPT}

\* the texts made of n pieces
RECURSIVE Texts(_)
Texts(n) ==
  IF n = 0 THEN {<<>>}
  ELSE {t \o p : t \in Texts(n - 1), p \in Pieces}

\* the responses: up to MaxPieces pieces and then the prompt
Responses == UNION {{t \o PROMPT : t \in Texts(n)} : n \in 0..MaxPieces}

\* everything but the response read_lines is given: no session is running
NoSession ==
  /\ targets = <<>>
  /\ pids = <<>>
  /\ state = STATE_START
  /\ threads = <<>>
  /\ reap_try = 0
  /\ loop = FALSE
  /\ in_watch = FALSE
  /\ out_watch = FALSE
  /\ timer = FALSE
  /\ gdb = "alive"
  /\ gdb_target = 0
  /\ inq = <<>>
  /\ outq = <<>>
  /\ written = <<>>
  /\ printed = <<>>
  /\ turns = 0
  /\ polllog = <<>>
  /\ signals = <<>>

InitFramer ==
  /\ rl_response \in Responses
  /\ rl_stream = rl_response
  /\ rl = read_start
  /\ bytes = 0
  /\ NoSession

\* one pass of the loop of read_lines: g_io_channel_read_chars stores the
\* next n bytes of the stream and returns G_IO_STATUS_NORMAL
FramerRead ==
  /\ ~rl.done
  /\ rl_stream # <<>>
  /\ \E n \in 1..MaxChunk :
       /\ n <= Len(rl_stream)
       /\ n <= BUF_SIZE
       /\ rl' = read_iter(rl, ReadResult(G_IO_STATUS_NORMAL,
                                         SubSeq(rl_stream, 1, n)))
       /\ rl_stream' = SubSeq(rl_stream, n + 1, Len(rl_stream))
       /\ bytes' = n
  /\ UNCHANGED <<app_vars, reap_vars, loop, in_watch, out_watch, targets, gdb,
                 gdb_target, inq, outq, written, printed, turns, rl_response>>

NextFramer == FramerRead

SpecFramer == InitFramer /\ [][NextFramer]_vars

(***************************************************************************)
(* read_lines on an answer longer than its buffer: how many bytes a read   *)
(* stores, and where the NUL after them goes                               *)
(***************************************************************************)
\* the index of buffer that "buffer[bytes] = '\0'" stores to
nul_index(n) == n

\* what a pass of the loop can come to once the NUL is stored at index at
\* of gchar buffer[BUF_SIZE]: inside the array the pass goes on as written;
\* past its end the store is undefined, and the byte lands on padding (the
\* pass goes on as written), on the low byte of status (which reads 0,
\* G_IO_STATUS_ERROR), or on a pointer the function goes on to use (the
\* process is killed and read_lines never returns)
store_outcomes(cur, rd, at) ==
  IF at < BUF_SIZE THEN {read_iter(cur, rd)}
  ELSE {read_iter(cur, rd),
        read_iter(cur, ReadResult(G_IO_STATUS_ERROR, rd.data)),
        [cur EXCEPT !.done = TRUE]}

\* an answer of BUF_SIZE bytes and a line feed before the prompt
LongResponse == [i \in 1..BUF_SIZE |-> "a"] \o <<LF>> \o PROMPT

InitBuffer ==
  /\ rl_response = LongResponse
  /\ rl_stream = rl_response
  /\ rl = read_start
  /\ bytes = 0
  /\ NoSession

\* one pass of the loop of read_lines, g_io_channel_read_chars asked for
\* BUF_SIZE bytes: the first read returns any number of the bytes of the
\* answer up to BUF_SIZE (none is the end of the stream), a later read all
\* there is up to BUF_SIZE
BufferRead ==
  /\ ~rl.done
  /\ LET most == IF Len(rl_stream) < BUF_SIZE THEN Len(rl_stream)
                 ELSE BUF_SIZE
     IN \E n \in (IF rl = read_start THEN 0..most ELSE {most}) :
          LET status == IF n = 0 THEN G_IO_STATUS_EOF
                        ELSE G_IO_STATUS_NORMAL
              rd == ReadResult(status, SubSeq(rl_stream, 1, n))
          IN /\ bytes' = n
             /\ rl' \in store_outcomes(rl, rd, nul_index(n))
             /\ rl_stream' = SubSeq(rl_stream, n + 1, Len(rl_stream))
  /\ UNCHANGED <<app_vars, reap_vars, loop, in_watch, out_watch, targets, gdb,
                 gdb_target, inq, outq, written, printed, turns, rl_response>>

NextBuffer == BufferRead

SpecBuffer == InitBuffer /\ [][NextBuffer]_vars

(***************************************************************************)
(* Properties                                                              *)
(***************************************************************************)
\* the positions of seq whose element satisfies Test, in order
Where(seq, Test(_)) ==
  SelectSeq([i \in 1..Len(seq) |-> i], LAMBDA i : Test(seq[i]))

IsAttach(c) == c.op = "attach"
IsDrop(c) == c.op \in {"p 0", "detach"}

\* the attach commands written so far, and how many targets were dropped
Attached == SelectSeq(written, IsAttach)
Dropped == Len(SelectSeq(written, IsDrop))

\* C1: the attach commands written are the first targets of the list, in
\* the order of the list, one per position; the queue is the list without
\* its first targets, one target dropped for each attach attempt that has
\* ended, by failure or by detach
C1_TargetsInOrder ==
  /\ Len(Attached) <= Len(targets)
  /\ \A k \in 1..Len(Attached) : Attached[k].pid = targets[k]
  /\ Dropped <= Len(targets)
  /\ pids = SubSeq(targets, Dropped + 1, Len(targets))
  /\ Len(Attached) - Dropped \in {0, 1}

C1_Witness ==
  /\ Len(targets) = 2
  /\ targets[1] \in Unattachable
  /\ Len(Attached) = 2
  /\ pids = <<targets[2]>>

\* some line of the answer to "attach pid" begins with "ptrace:"
BeginsWithPtrace(line) ==
  /\ Len(line) >= Len(PTRACE)
  /\ \A j \in 1..Len(PTRACE) : line[j] = PTRACE[j]

AttachRefused(pid) ==
  \E j \in 1..Len(AttachLines(pid)) : BeginsWithPtrace(AttachLines(pid)[j])

\* the position in the target list of the attach command written[i]
TargetIndex(i) == Len(SelectSeq(SubSeq(written, 1, i), IsAttach))

IsSkip(m) == m.msg = "Skipping pid"

\* C2: after an attach that gdb answers with a ptrace: line, the skip is
\* reported naming that pid, the next command is the one flush, and the
\* command after the flush is the attach of the next target, or quit when
\* there is none; so nothing else is ever written for that pid
C2_FailedAttachSkipped ==
  LET failed == SelectSeq([i \in 1..Len(written) |-> i],
                          LAMBDA i : /\ written[i].op = "attach"
                                     /\ AttachRefused(written[i].pid)
                                     /\ i < Len(written))
      skips == SelectSeq(printed, IsSkip)
  IN /\ Len(skips) = Len(failed)
     /\ \A n \in 1..Len(failed) :
          LET i == failed[n]
              k == TargetIndex(i)
          IN /\ skips[n].pid = written[i].pid
             /\ written[i + 1] = CMD_FLUSH
             /\ i + 2 <= Len(written) =>
                  written[i + 2] = IF k < Len(targets)
                                   THEN CMD_ATTACH(targets[k + 1])
                                   ELSE CMD_QUIT

C2_Witness ==
  /\ targets = <<111>>
  /\ Len(written) = 4
  /\ written[2] = CMD_ATTACH(111)
  /\ written[3] = CMD_FLUSH
  /\ written[4] = CMD_QUIT
  /\ printed = <<MSG_SKIPPING(111, L_NOT_PERMITTED)>>

\* C3: a command is written only in the step that handles a framed turn,
\* one command at most in such a step, so the commands written never
\* outnumber the turns framed: no command is written while the answer to
\* the one before is still to be framed
C3_HalfDuplex ==
  [][/\ written' # written =>
          /\ turns' = turns + 1
          /\ Len(written') = Len(written) + 1
          /\ SubSeq(written', 1, Len(written)) = written
     /\ Len(written') <= turns']_vars

C3_Witness ==
  /\ Len(written) = 5
  /\ turns = 5
  /\ Len(inq) = 1
  /\ outq = <<>>

\* the identifier get_thread_ids takes from one line of a listing
IdOf(line) == digit_scan(line, 1, FALSE).str

HasId(line) == strstr(line, THREAD) /\ digit_scan(line, 1, FALSE).found

\* one identifier for each matching line, in the order of the listing
IdsInListingOrder(lines) ==
  LET m == SelectSeq(lines, HasId)
  IN [k \in 1..Len(m) |-> IdOf(m[k])]

MsgLines(lines) == [k \in 1..Len(lines) |-> MSG_LINE(lines[k])]

\* C4: with targets 111 and 222, once quit is written the run has printed
\* the skip of 111, the header of 222 and the frames of the two threads of
\* 222, those of the thread listed first before those of the other, and
\* the last two commands are detach and quit
C4_Scenario ==
  (/\ targets = <<111, 222>>
   /\ written # <<>>
   /\ written[Len(written)] = CMD_QUIT)
  => /\ printed =
          <<MSG_SKIPPING(111, L_NOT_PERMITTED), MSG_BACKTRACE_FOR(222)>>
            \o MsgLines(FrameLines(IdOf(ThreadLines(222)[1])))
            \o MsgLines(FrameLines(IdOf(ThreadLines(222)[2])))
     /\ written[Len(written) - 1] = CMD_DETACH

\* the identifiers sent with pstack_thread since the last "info threads"
SentIds ==
  LET info == Where(written, LAMBDA c : c.op = "info threads")
      from == IF info = <<>> THEN 0 ELSE info[Len(info)]
      sent == SelectSeq(SubSeq(written, from + 1, Len(written)),
                        LAMBDA c : c.op = "pstack_thread")
  IN [k \in 1..Len(sent) |-> sent[k].str]

\* C5: get_thread_ids gives the identifiers of a listing in the order of
\* the listing, repeated ones included, and the pstack_thread commands of
\* a target are written in that order: while the backtraces of a target
\* are printed, the identifiers sent and those still queued are the
\* identifiers of its listing in listing order
C5_ListingOrder ==
  state = STATE_PRINT_BACKTRACE =>
    /\ get_thread_ids(ThreadLines(Head(pids)))
         = IdsInListingOrder(ThreadLines(Head(pids)))
    /\ SentIds \o threads = IdsInListingOrder(ThreadLines(Head(pids)))

Kills(sig) == SelectSeq(signals, LAMBDA k : k.sig = sig)

\* C6: SIGTERM is sent by the REAP_RETRY_COUNT-th poll that finds gdb not
\* exited, by no other poll, and so once in a run
C6_SigtermOnce ==
  /\ \A k \in 1..Len(Kills(SIGTERM)) :
       Kills(SIGTERM)[k].poll = REAP_RETRY_COUNT
  /\ Len(Kills(SIGTERM)) =
       IF Len(polllog) >= REAP_RETRY_COUNT /\ polllog[REAP_RETRY_COUNT] = 0
       THEN 1 ELSE 0

C6_Witness ==
  /\ Len(polllog) = REAP_RETRY_COUNT + 1
  /\ \A i \in 1..Len(polllog) : polllog[i] = 0
  /\ Len(Kills(SIGTERM)) = 1

\* C7 as claimed: SIGKILL is sent by the failed poll that follows the one
\* that sent SIGTERM, by no other poll, and so once in a run
C7_SigkillOnce ==
  /\ \A k \in 1..Len(Kills(SIGKILL)) :
       Kills(SIGKILL)[k].poll = REAP_RETRY_COUNT + 1
  /\ Len(Kills(SIGKILL)) =
       IF /\ Len(polllog) >= REAP_RETRY_COUNT + 1
          /\ polllog[REAP_RETRY_COUNT + 1] = 0
       THEN 1 ELSE 0

\* C7 amended: SIGKILL is sent by the failed poll that follows the one
\* that sent SIGTERM and again by every later failed poll, once by each,
\* and by no other poll
C7_SigkillEveryLaterPoll ==
  /\ \A i \in 1..Len(polllog) :
       Len(SelectSeq(Kills(SIGKILL), LAMBDA k : k.poll = i)) =
         IF polllog[i] = 0 /\ i > REAP_RETRY_COUNT THEN 1 ELSE 0
  /\ \A k \in 1..Len(Kills(SIGKILL)) :
       Kills(SIGKILL)[k].poll \in 1..Len(polllog)

C7_Witness ==
  /\ Len(polllog) = REAP_RETRY_COUNT + 2
  /\ \A i \in 1..Len(polllog) : polllog[i] = 0
  /\ Len(Kills(SIGKILL)) = 2

\* C8: once a poll has found gdb exited, that poll is the last one, the
\* main loop is stopped, the timeout is not registered, and no signal was
\* sent by that poll or after it
C8_NoSignalAfterExit ==
  \A i \in 1..Len(polllog) :
    polllog[i] # 0 =>
      /\ i = Len(polllog)
      /\ ~loop
      /\ ~timer
      /\ \A k \in 1..Len(signals) : signals[k].poll < i

C8_Witness ==
  /\ polllog = <<1>>
  /\ ~loop

\* the response cut at its line feeds, without what follows the last one
LinesOf(response) ==
  LET nl == {i \in 1..Len(response) : response[i] = LF}
      nth(k) == CHOOSE i \in nl : Cardinality({j \in nl : j < i}) = k - 1
      start(k) == IF k = 1 THEN 1 ELSE nth(k - 1) + 1
  IN [k \in 1..Cardinality(nl) |->
        SubSeq(response, start(k), nth(k) - 1)]

\* C9: however the bytes of a response that ends with the prompt are
\* divided into reads, read_lines returns the lines of the whole response
C9_ChunkingIndependent ==
  rl.done => /\ ~rl.null
             /\ rl.lines = LinesOf(rl_response)

\* C10: the command that follows an attach is the flush of the failure
\* branch exactly when some line of the answer to the attach begins with
\* "ptrace:", and is "info threads" otherwise
C10_FailureIffPtraceLine ==
  \A i \in 1..(Len(written) - 1) :
    written[i].op = "attach" =>
      /\ written[i + 1] = CMD_FLUSH <=> AttachRefused(written[i].pid)
      /\ written[i + 1] = CMD_INFO_THREADS <=> ~AttachRefused(written[i].pid)

C10_Witness ==
  /\ targets = <<333, 555>>
  /\ Len(written) = 8
  /\ written[2] = CMD_ATTACH(333)
  /\ written[3] = CMD_INFO_THREADS
  /\ written[6] = CMD_ATTACH(555)
  /\ written[7] = CMD_FLUSH

\* C12: the step that handles the answer to "info threads" writes one
\* command and leaves the state at PRINT_BACKTRACE: pstack_thread for the
\* first identifier taken from the listing when the listing is not empty
\* and gave an identifier, and the plain backtrace in every other case
C12_BacktraceStep ==
  [][(state = STATE_BACKTRACE /\ turns' = turns + 1) =>
       LET lines == ThreadLines(Head(pids))
           ids == get_thread_ids(lines)
       IN /\ state' = STATE_PRINT_BACKTRACE
          /\ written' = Append(written,
                               IF lines # <<>> /\ ids # <<>>
                               THEN CMD_PSTACK_THREAD(Head(ids))
                               ELSE CMD_BACKTRACE)]_vars

\* the session waits for a turn: gdb is alive and idle, and nothing is left
\* to read
Waiting ==
  /\ loop
  /\ out_watch
  /\ gdb = "alive"
  /\ outq = <<>>

\* C11: while gdb stays alive and no read fails, the session never waits
\* for a turn with no command outstanding, and quit is written in the end
C11_Progress ==
  /\ [](Waiting => inq # <<>>)
  /\ <>(\/ \E i \in 1..Len(written) : written[i] = CMD_QUIT
        \/ gdb # "alive"
        \/ ~out_watch)

\* C17: once a callback has ended without a turn and the watch on gdb's
\* output is gone, no turn is handled and no command is written any more,
\* and the main loop stops in the end (or the polls followed are used up)
C17_ReadFailureTerminal ==
  /\ [][~out_watch => /\ written' = written
                      /\ turns' = turns
                      /\ ~out_watch']_vars
  /\ [](~out_watch => <>(~loop \/ Len(polllog) >= MaxPolls))

\* the pstack_thread commands written for the k-th target attached
SentFor(k) ==
  LET at == Where(written, IsAttach)
      to == IF k < Len(at) THEN at[k + 1] - 1 ELSE Len(written)
  IN SelectSeq(SubSeq(written, at[k] + 1, to),
               LAMBDA c : c.op = "pstack_thread")

\* C13: the thread queue is empty unless the state is PRINT_BACKTRACE, it
\* is empty before and after a step that writes an attach command, and the
\* identifiers sent for a target are identifiers of its own listing, no
\* more of them than the listing gave
C13_ThreadQueue ==
  /\ [](threads # <<>> => state = STATE_PRINT_BACKTRACE)
  /\ [][(written' # written /\ written'[Len(written')].op = "attach")
         => threads = <<>> /\ threads' = <<>>]_vars
  /\ [](\A k \in 1..Len(Attached) :
          LET ids == get_thread_ids(ThreadLines(Attached[k].pid))
          IN /\ Len(SentFor(k)) <= Len(ids)
             /\ \A j \in 1..Len(SentFor(k)) :
                  \E n \in 1..Len(ids) : SentFor(k)[j].str = ids[n])

C13_Witness ==
  /\ targets = <<222, 888>>
  /\ Len(Attached) = 2
  /\ state = STATE_PRINT_BACKTRACE
  /\ Len(threads) = 2
  /\ Len(SentFor(1)) = 2

\* the positions of the first maximal run of digits of line at or after
\* position from: <<first, last>>, or <<>> when no digit is there
DigitRunAt(line, from) ==
  LET ds == {i \in from..Len(line) : g_ascii_isdigit(line[i])}
      first == CHOOSE i \in ds : \A j \in ds : i <= j
      last == CHOOSE e \in first..Len(line) :
                /\ \A j \in first..e : j \in ds
                /\ (e + 1) \notin ds
  IN IF ds = {} THEN <<>> ELSE <<first, last>>

DigitRunFrom(line, from) ==
  LET at == DigitRunAt(line, from)
  IN IF at = <<>> THEN <<>> ELSE SubSeq(line, at[1], at[2])

\* the digits that follow the first "Thread" of a line that has one
DigitsAfterThread(line) ==
  LET at == CHOOSE i \in 1..Len(line) :
              /\ SubSeq(line, i, i + Len(THREAD) - 1) = THREAD
              /\ \A j \in 1..(i - 1) :
                   SubSeq(line, j, j + Len(THREAD) - 1) # THREAD
  IN DigitRunFrom(line, at + Len(THREAD))

HasDigitsAfterThread(line) ==
  strstr(line, THREAD) /\ DigitsAfterThread(line) # <<>>

ThroughFirstDigits(line) == SubSeq(line, 1, DigitRunAt(line, 1)[2])

HasThreadAndDigit(line) == strstr(line, THREAD) /\ DigitRunAt(line, 1) # <<>>

C16_DoneInDropStep ==
  [][pids' # pids =>
       state' = IF pids' = <<>> THEN STATE_DONE ELSE STATE_ATTACH]_vars

\* C16 amended: the step that drops a target removes the front of the
\* queue and leaves the state ATTACH, whether or not a target remains; the
\* state becomes DONE only in a later callback that finds the queue empty,
\* and from ATTACH
C16_AttachInDropStep ==
  /\ [][pids' # pids =>
          /\ pids' = Tail(pids)
          /\ state' = STATE_ATTACH]_vars
  /\ [][(state' = STATE_DONE /\ state # STATE_DONE) =>
          /\ pids = <<>>
          /\ pids' = <<>>
          /\ state = STATE_ATTACH]_vars
  /\ [](pids = <<>> => state \in {STATE_ATTACH, STATE_DONE})

C16_Witness ==
  /\ pids = <<>>
  /\ state = STATE_ATTACH
  /\ written # <<>>
  /\ written[Len(written)] = CMD_DETACH
  /\ Len(targets) = 2

QuitWritten == \E i \in 1..Len(written) : written[i] = CMD_QUIT

DiedReported == \E i \in 1..Len(printed) : printed[i] = MSG_DIED

\* C18: the state is DONE only if quit has been written; so once reap_gdb
\* has run on the closure of gdb's input, it has reported that gdb died
\* exactly when quit had not been written
C18_DoneOnlyAfterQuit ==
  /\ state = STATE_DONE => QuitWritten
  /\ ~in_watch => (DiedReported <=> ~QuitWritten)
  /\ DiedReported => ~in_watch

\* C19: the index the terminating NUL of a read is stored at lies inside
\* the BUF_SIZE bytes of buffer
C19_NulInsideBuffer == nul_index(bytes) <= BUF_SIZE - 1

\* the commands of the steps that read the current target or drop it
TargetOps ==
  {"attach", "info threads", "p 0", "pstack_thread", "backtrace", "detach"}

\* C20: a step that writes a command of a target, or that removes the
\* front of the target queue, starts with the target queue not empty, and
\* its attach names the front of the queue; a step of PRINT_BACKTRACE that
\* writes pstack_thread starts with the thread queue not empty and sends
\* and removes its front; so no attach carries the pid -1
C20_QueuesNonEmpty ==
  /\ [][written' # written =>
          LET c == written'[Len(written')]
          IN /\ c.op \in TargetOps => pids # <<>>
             /\ c.op = "attach" => /\ pids # <<>>
                                   /\ c.pid = Head(pids)
             /\ (c.op = "pstack_thread" /\ state = STATE_PRINT_BACKTRACE) =>
                  /\ threads # <<>>
                  /\ c.str = Head(threads)
                  /\ threads' = Tail(threads)]_vars
  /\ [][pids' # pids => pids # <<>> /\ pids' = Tail(pids)]_vars
  /\ [](\A i \in 1..Len(written) :
          written[i].op = "attach" => written[i].pid > 0)

C20_Witness ==
  /\ targets = <<888, 111>>
  /\ pids = <<>>
  /\ QuitWritten
  /\ Len(SentFor(1)) = 3

====
